---- MODULE Spec2Model ----
(***************************************************************************)
(* A model of src/get.mjs: the schema-sheets-get command line client.      *)
(*                                                                         *)
(* The process is modelled at the granularity of the Node.js event loop:   *)
(* every action is one macrotask, i.e. the synchronous code that runs      *)
(* between two suspension points (await / timer / signal), including all   *)
(* the microtask continuations that follow without yielding.               *)
(*                                                                         *)
(* Strings are sequences of one-character strings, so that the formatting  *)
(* functions are computed character by character as the code does.         *)
(***************************************************************************)
EXTENDS Integers, Sequences, FiniteSets, TLC

VARIABLES
    flags,      \* args.flags: [storage, debug, namedQuery, json, export]
    queryInput, \* args.args.query, a string
    roomLink,   \* args.args.roomLink: [valid, bytes], whether z32 can decode it
                \* and the bytes it decodes to
    session,    \* the [key, encryptionKey] of each SchemaSheets constructed so far
    closed,     \* the resources ("blind", "swarm", "store") whose close, once called by
                \* cleanup(), has completed
    room,       \* what the replicated room holds: [schemas, queries, results]
    synced,     \* TRUE once the room's data has been replicated into the local store
    main,       \* position of the module's top-level code
    attempt,    \* number of executeQuery() invocations so far
    pc,         \* position of the current executeQuery() invocation
    retries,    \* getSchemas: the local variable retries
    exitAfter,  \* the process.exit() code that follows the cleanup() being awaited
    timer,      \* TRUE while the 200ms retry timer is pending
    gb,         \* graceful-goodbye: "armed", "rm" (its cleanup awaits rm), "done"
    teardown,   \* what the cleanup() calls did so far, in order: "blind", "swarm",
                \* "store" closed, then "rm" (directory removed), "rmFailed" or "kept"
    dir,        \* the storage directory: "present" or "removed"
    stdout,     \* lines written to the output stream
    stderr,     \* lines written to the error stream
    schemaId,   \* executeQuery: the local schemaId
    calls,      \* the setup calls, the store calls, the pauses and the result sets
                \* written so far, in order, with a mark where getSchemas is entered
    cleanups,   \* the number of cleanup() calls so far
    throws,     \* the number of cleanup() calls that threw so far
    exitCode    \* NotExited while the process runs, else its exit code

vars == <<flags, queryInput, roomLink, session, closed, room, synced, main, attempt, pc, retries, exitAfter,
          timer, gb, teardown, dir, stdout, stderr, schemaId, calls,
          cleanups, throws, exitCode>>

----------------------------------------------------------------------------
(* Bounds of the model. *)

\* the largest number of schemas a room holds
MaxSchemas == 2
\* the largest number of cleanup() calls of one invocation in which a close throws
MaxThrows == 1
\* the largest length of a property name drawn from NameChars
MaxNameLen == 2
\* the largest number of bytes of an encryption key in a room link
MaxSecretLen == 2
\* the largest length of a value drawn from EscapeChars
MaxValueLen == 3
\* the largest length of a query argument drawn from ParseChars
MaxInputLen == 4

----------------------------------------------------------------------------
(* Program constants. *)

\* getSchemas: let retries = 3
SchemaRetries == 3
\* process.exit(0)
ExitOk == 0
\* process.exit(1), and Node's exit code for an uncaught error
ExitFail == 1
\* the value of exitCode while the process has not exited: no exit code
NotExited == ExitOk - 1

----------------------------------------------------------------------------
(* Strings. *)

Lower == <<"a","b","c","d","e","f","g","h","i","j","k","l","m",
           "n","o","p","q","r","s","t","u","v","w","x","y","z">>
Upper == <<"A","B","C","D","E","F","G","H","I","J","K","L","M",
           "N","O","P","Q","R","S","T","U","V","W","X","Y","Z">>
Digit == <<"0","1","2","3","4","5","6","7","8","9">>

Range(s) == {s[i] : i \in DOMAIN s}

\* a character outside ASCII whose upper-case form is two characters long
Eszett == "ß"

\* String.prototype.toUpperCase on one character: a string, since the
\* upper-case form of a character may be longer than the character
ToUpperChar(c) ==
    IF c \in Range(Lower)
    THEN <<Upper[CHOOSE i \in DOMAIN Lower : Lower[i] = c]>>
    ELSE IF c = Eszett THEN <<"S", "S">>
    ELSE <<c>>

\* the concatenation of a sequence of strings
RECURSIVE Concat(_)
Concat(ss) == IF ss = <<>> THEN <<>> ELSE Head(ss) \o Concat(Tail(ss))

\* the characters escapeShellValue treats; the backtick cannot be written in a
\* TLA+ string, so a token stands for it
Backslash == "\\"
DQuote == "\""
Dollar == "$"
Newline == "\n"
Backtick == "BACKTICK"

\* str.replace(/c/g, rep): every occurrence of the character c replaced by rep
ReplaceAll(str, c, rep) ==
    Concat([i \in DOMAIN str |-> IF str[i] = c THEN rep ELSE <<str[i]>>])

\* an escaping that treats the backslash last
EscapeStringBackslashLast(str) ==
    LET s1 == ReplaceAll(str, DQuote, <<Backslash, DQuote>>)
        s2 == ReplaceAll(s1, Backtick, <<Backslash, Backtick>>)
        s3 == ReplaceAll(s2, Dollar, <<Backslash, Dollar>>)
        s4 == ReplaceAll(s3, Newline, <<Backslash, "n">>)
        s5 == ReplaceAll(s4, Backslash, <<Backslash, Backslash>>)
    IN  s5

\* escapeShellValue, after String(value)
EscapeString(str) ==
    LET s1 == ReplaceAll(str, Backslash, <<Backslash, Backslash>>)
        s2 == ReplaceAll(s1, DQuote, <<Backslash, DQuote>>)
        s3 == ReplaceAll(s2, Backtick, <<Backslash, Backtick>>)
        s4 == ReplaceAll(s3, Dollar, <<Backslash, Dollar>>)
        s5 == ReplaceAll(s4, Newline, <<Backslash, "n">>)
    IN  s5

\* String.prototype.toUpperCase
ToUpperCase(str) == Concat([i \in DOMAIN str |-> ToUpperChar(str[i])])

\* the characters /[a-zA-Z0-9_]/ matches
WordChars == Range(Lower) \cup Range(Upper) \cup Range(Digit) \cup {"_"}

\* a conversion that upper-cases before it replaces
propertyToVarNameUpperFirst(property) ==
    LET upper == ToUpperCase(property)
    IN  [i \in DOMAIN upper |-> IF upper[i] \in WordChars THEN upper[i] ELSE "_"]

\* propertyToVarName
propertyToVarName(property) ==
    LET replaced == [i \in DOMAIN property |->
                        IF property[i] \in WordChars THEN property[i] ELSE "_"]
    IN  ToUpperCase(replaced)

----------------------------------------------------------------------------
(* The query argument (executeQuery, named mode). *)

\* str.indexOf(c): the 0-based index of the first occurrence, -1 if none
IndexOf(str, c) ==
    IF \E i \in DOMAIN str : str[i] = c
    THEN (CHOOSE i \in DOMAIN str : str[i] = c /\ \A j \in 1..(i - 1) : str[j] # c) - 1
    ELSE -1

\* str.substring(from, to), 0-based, to exclusive
Substring(str, from, to) == SubSeq(str, from + 1, to)

\* str.split(c)
RECURSIVE Split(_, _)
Split(str, c) ==
    LET k == IndexOf(str, c)
    IN  IF k = -1 THEN <<str>>
        ELSE <<Substring(str, 0, k)>> \o Split(Substring(str, k + 1, Len(str)), c)

WhiteSpace == {" ", "\t", Newline}

\* str.trim()
RECURSIVE Trim(_)
Trim(str) ==
    IF str = <<>> THEN str
    ELSE IF Head(str) \in WhiteSpace THEN Trim(Tail(str))
    ELSE IF str[Len(str)] \in WhiteSpace THEN Trim(SubSeq(str, 1, Len(str) - 1))
    ELSE str

\* a parsing that does not trim the pieces
ParseNamedNoTrim(input) ==
    LET colonIndex == IndexOf(input, ":")
        propertiesStr == Substring(input, colonIndex + 1, Len(input))
        pieces == Split(propertiesStr, ",")
    IN  IF colonIndex # -1
        THEN [queryName |-> Substring(input, 0, colonIndex),
              hasProperties |-> TRUE,
              properties |-> SelectSeq(pieces, LAMBDA q : Len(q) > 0)]
        ELSE [queryName |-> input, hasProperties |-> FALSE, properties |-> <<>>]

\* the query name and the property list of a named-query argument;
\* hasProperties = FALSE stands for properties = null
ParseNamed(input) ==
    LET colonIndex == IndexOf(input, ":")
        propertiesStr == Substring(input, colonIndex + 1, Len(input))
        pieces == Split(propertiesStr, ",")
        trimmed == [i \in DOMAIN pieces |-> Trim(pieces[i])]
    IN  IF colonIndex # -1
        THEN [queryName |-> Substring(input, 0, colonIndex),
              hasProperties |-> TRUE,
              properties |-> SelectSeq(trimmed, LAMBDA q : Len(q) > 0)]
        ELSE [queryName |-> input, hasProperties |-> FALSE, properties |-> <<>>]

----------------------------------------------------------------------------
(* JSON values, as the store returns them in result.json.                  *)
(* A value is [t, v, f]: t its type, v the text of a scalar, f the fields  *)
(* of an object as a sequence of <<key, value>> in insertion order.        *)

JStr(s) == [t |-> "str", v |-> s, f |-> <<>>]
JNum(s) == [t |-> "num", v |-> s, f |-> <<>>]
JNull == [t |-> "null", v |-> <<>>, f |-> <<>>]
JObj(fields) == [t |-> "obj", v |-> <<>>, f |-> fields]

\* Properties every object and string inherits from its prototype: of the
\* members of Object.prototype, the accessor __proto__ and the method toString.
ProtoKey == <<"_","_","p","r","o","t","o","_","_">>
ToStringKey == <<"t","o","S","t","r","i","n","g">>
InheritedKeys == {ProtoKey, ToStringKey}

\* the values of the inherited properties: the prototype object and a native function
InheritedValue(prop) ==
    IF prop = ProtoKey THEN JObj(<<>>)
    ELSE [t |-> "fn",
          v |-> <<"f","u","n","c","t","i","o","n"," ","t","o","S","t","r","i","n","g",
                  "(",")"," ","{"," ","[","n","a","t","i","v","e"," ","c","o","d","e",
                  "]"," ","}">>,
          f |-> <<>>]

\* Object.keys(value); a string has its indices as keys. Not defined on null.
ObjectKeys(val) ==
    IF val.t = "obj" THEN [i \in DOMAIN val.f |-> val.f[i][1]]
    ELSE IF val.t = "str" THEN [i \in DOMAIN val.v |-> <<Digit[i]>>]
    ELSE <<>>

\* value has an own property prop
HasOwn(val, prop) ==
    IF val.t = "obj" THEN \E i \in DOMAIN val.f : val.f[i][1] = prop
    ELSE IF val.t = "str"
         THEN \/ prop = <<"l","e","n","g","t","h">>
              \/ \E i \in DOMAIN val.v : prop = <<Digit[i]>>
    ELSE FALSE

\* value[prop] !== undefined, for a value other than null: the property is
\* looked up on the value and then on its prototype
HasProp(val, prop) == HasOwn(val, prop) \/ prop \in InheritedKeys

\* value[prop], where HasProp(value, prop)
GetProp(val, prop) ==
    IF ~HasOwn(val, prop) THEN InheritedValue(prop)
    ELSE IF val.t = "obj"
    THEN val.f[CHOOSE i \in DOMAIN val.f : val.f[i][1] = prop][2]
    ELSE IF prop = <<"l","e","n","g","t","h">>
         THEN JNum(<<Digit[Len(val.v) + 1]>>)
         ELSE JStr(<<val.v[CHOOSE i \in DOMAIN val.v : prop = <<Digit[i]>>]>>)

\* a property key that is an array index: the canonical decimal form of a number
IsArrayIndex(key) ==
    /\ key # <<>>
    /\ \A i \in DOMAIN key : key[i] \in Range(Digit)
    /\ Len(key) = 1 \/ key[1] # "0"

\* the number an array index key denotes
RECURSIVE IndexValue(_)
IndexValue(key) ==
    IF key = <<>> THEN 0
    ELSE 10 * IndexValue(SubSeq(key, 1, Len(key) - 1))
         + (CHOOSE d \in 0..9 : Digit[d + 1] = key[Len(key)])

\* object[key] = value on a plain object with the given own fields: an existing
\* key keeps its place; a new array index key is placed among the array index
\* keys in ascending order, which come before all other keys; any other new key
\* goes last; assigning to __proto__ creates no own property
JsSet(fields, key, value) ==
    LET before == {i \in DOMAIN fields :
                      /\ IsArrayIndex(fields[i][1])
                      /\ IndexValue(fields[i][1]) < IndexValue(key)}
        k == Cardinality(before)
    IN  IF key = ProtoKey THEN fields
        ELSE IF \E i \in DOMAIN fields : fields[i][1] = key
        THEN [i \in DOMAIN fields |->
                 IF fields[i][1] = key THEN <<key, value>> ELSE fields[i]]
        ELSE IF IsArrayIndex(key)
        THEN SubSeq(fields, 1, k) \o << <<key, value>> >> \o SubSeq(fields, k + 1, Len(fields))
        ELSE Append(fields, <<key, value>>)

\* properties.forEach(prop => { if (asJson[prop] !== undefined) output[prop] = asJson[prop] })
RECURSIVE PickProps(_, _, _)
PickProps(asJson, props, output) ==
    IF props = <<>> THEN output
    ELSE PickProps(asJson, Tail(props),
                   IF HasProp(asJson, Head(props))
                   THEN JsSet(output, Head(props), GetProp(asJson, Head(props)))
                   ELSE output)

\* String(value)
JsString(val) ==
    CASE val.t = "str" -> val.v
      [] val.t = "num" -> val.v
      [] val.t = "fn" -> val.v
      [] val.t = "null" -> <<"n","u","l","l">>
      [] val.t = "obj" -> <<"[","o","b","j","e","c","t"," ","O","b","j","e","c","t","]">>

\* escapeShellValue
escapeShellValue(value) == EscapeString(JsString(value))

\* JSON.stringify of a string
JsonQuote(str) ==
    LET s1 == ReplaceAll(str, Backslash, <<Backslash, Backslash>>)
        s2 == ReplaceAll(s1, DQuote, <<Backslash, DQuote>>)
        s3 == ReplaceAll(s2, Newline, <<Backslash, "n">>)
    IN  <<DQuote>> \o s3 \o <<DQuote>>

\* the elements of a sequence of strings joined by commas
RECURSIVE JoinComma(_)
JoinComma(ss) ==
    IF ss = <<>> THEN <<>>
    ELSE IF Len(ss) = 1 THEN ss[1]
    ELSE ss[1] \o <<",">> \o JoinComma(Tail(ss))

\* JSON.stringify of a scalar; the values of an object's fields are scalars here
JsonScalar(val) ==
    IF val.t = "str" THEN JsonQuote(val.v)
    ELSE IF val.t = "num" THEN val.v
    ELSE IF val.t = "null" THEN <<"n","u","l","l">>
    ELSE <<"{","}">>

\* JSON.stringify(value); a field whose value is a function is left out
JsonStringify(val) ==
    LET kept == SelectSeq(val.f, LAMBDA fld : fld[2].t # "fn")
    IN  IF val.t = "obj"
        THEN <<"{">>
             \o JoinComma([i \in DOMAIN kept |->
                    JsonQuote(kept[i][1]) \o <<":">> \o JsonScalar(kept[i][2])])
             \o <<"}">>
        ELSE JsonScalar(val)

\* JSON.stringify of an array of values
JsonStringifyAll(vals) ==
    <<"[">> \o JoinComma([i \in DOMAIN vals |-> JsonStringify(vals[i])]) \o <<"]">>

\* a console.log that writes a string in its JSON form
ConsoleLogQuoted(val) == JsonScalar(val)

\* the text console.log(value) writes for a scalar value
ConsoleLogText(val) == JsString(val)

Undefined == <<"u","n","d","e","f","i","n","e","d">>

\* one shell assignment line
AssignLine(prop, value) ==
    (IF flags.export THEN <<"e","x","p","o","r","t"," ">> ELSE <<>>)
    \o propertyToVarName(prop) \o <<"=", DQuote>> \o escapeShellValue(value)
    \o <<DQuote>>

\* the lines named mode writes for the results of the query (results non-empty);
\* threw: a TypeError is thrown before anything is written
NamedOutput(results, parsed) ==
    LET asJson == results[1].json
        present == SelectSeq(parsed.properties, LAMBDA q : HasProp(asJson, q))
    IN  IF ~parsed.hasProperties
        THEN IF asJson.t = "null" THEN [threw |-> TRUE, lines |-> <<>>]
             ELSE IF ObjectKeys(asJson) = <<>>
                  THEN [threw |-> FALSE, lines |-> <<Undefined>>]
                  ELSE [threw |-> FALSE,
                        lines |-> <<ConsoleLogText(GetProp(asJson, ObjectKeys(asJson)[1]))>>]
        ELSE IF asJson.t = "null" /\ parsed.properties # <<>>
             THEN [threw |-> TRUE, lines |-> <<>>]
        ELSE IF flags.json
             THEN [threw |-> FALSE,
                   lines |-> <<JsonStringify(JObj(PickProps(asJson, parsed.properties, <<>>)))>>]
             ELSE [threw |-> FALSE,
                   lines |-> [i \in DOMAIN present |->
                                 AssignLine(present[i], GetProp(asJson, present[i]))]]

\* an expression mode that flattens every result, not only the first
ExpressionOutputAllResults(results) ==
    IF flags.json
    THEN IF Len(results) = 1
         THEN <<JsonStringify(results[1].json)>>
         ELSE <<JsonStringifyAll([i \in DOMAIN results |-> results[i].json])>>
    ELSE Concat([r \in DOMAIN results |->
                    IF results[r].json.t = "obj"
                    THEN [i \in DOMAIN results[r].json.f |->
                             AssignLine(results[r].json.f[i][1], results[r].json.f[i][2])]
                    ELSE <<ConsoleLogText(results[r].json)>>])

\* the lines expression mode writes for the results of the query (results non-empty)
ExpressionOutput(results) ==
    LET firstResult == results[1].json
    IN  IF flags.json
        THEN IF Len(results) = 1
             THEN <<JsonStringify(results[1].json)>>
             ELSE <<JsonStringifyAll([i \in DOMAIN results |-> results[i].json])>>
        ELSE IF firstResult.t = "obj"
             THEN [i \in DOMAIN firstResult.f |->
                      AssignLine(firstResult.f[i][1], firstResult.f[i][2])]
             ELSE <<ConsoleLogText(firstResult)>>

----------------------------------------------------------------------------
(* The inputs of an invocation and the rooms it may be pointed at. *)

Flags == [storage : BOOLEAN, debug : BOOLEAN, namedQuery : BOOLEAN,
          json : BOOLEAN, export : BOOLEAN]

\* a query name alone, and one followed by a property list; without -n the
\* argument is an expression, in which ':' and ',' may occur as well
QueryInputs(named) ==
    IF named
    THEN { <<"q">>, <<"q", ":", "a", ",", " ", "x", ",", "b", "-", "c">> }
    ELSE { <<"q", ":", "a", ",", " ", "x", ",", "b", "-", "c">> }

SchemaLists ==
    {[i \in 1..n |-> [schemaId |-> <<"s", Digit[i + 1]>>]] : n \in 0..MaxSchemas}

Record1 == JObj(<< <<<<"a">>, JStr(<<"1">>)>>,
                   <<<<"b", "-", "c">>, JStr(<<Dollar, DQuote, "v">>)>> >>)
Record2 == JObj(<< <<<<"a">>, JStr(<<"2">>)>> >>)

ResultLists ==
    { <<>>,
      <<[json |-> Record1], [json |-> Record2]>>,
      <<[json |-> JNull]>> }

QueryLists ==
    { <<[name |-> <<"Q">>, JMESPathQuery |-> <<"e">>]>>,
      <<[name |-> <<"Q">>, JMESPathQuery |-> <<"e">>],
        [name |-> <<"q">>, JMESPathQuery |-> <<"f">>]>> }

\* the rooms: one without a schema holds no rows, and the rows matter only
\* where the query they answer exists
Rooms ==
    {r \in [schemas : SchemaLists, queries : QueryLists, results : ResultLists] :
        /\ r.schemas = <<>> => r.results = <<>> /\ Len(r.queries) = 1
        /\ r.schemas # <<>> /\ Len(r.queries) = 1 => Len(r.results) = 2}

----------------------------------------------------------------------------
(* Output streams. *)

\* A maximal run of consecutive debug lines is kept as one entry: the text of
\* a debug line (a timestamp and a progress message) is not modelled.
DebugRun == [kind |-> "debug", text |-> <<>>]
ResultLine(text) == [kind |-> "result", text |-> text]
ErrorLine(text) == [kind |-> "error", text |-> text]

\* debug(...) called once for each label: console.log when --debug, else nothing
Debug(out, labels) ==
    IF flags.debug /\ labels # <<>>
    THEN IF out # <<>> /\ out[Len(out)].kind = "debug" THEN out ELSE Append(out, DebugRun)
    ELSE out

\* an emission that yields to the event loop after its first line
EmitFirstLine(out, lines) ==
    IF lines = <<>> THEN out ELSE Append(out, ResultLine(lines[1]))

\* console.log of each line of a result set
Emit(out, lines) == out \o [i \in DOMAIN lines |-> ResultLine(lines[i])]

----------------------------------------------------------------------------
(* cleanup() *)

\* the outcomes of the closing calls of cleanup(): none throws, or blind.close()
\* throws. (A throw of swarm.destroy() or store.close() is handled by the same
\* code; only the first call is given a failure here.)
ThrowAt == {"none", "blind"}

\* the outcomes of a cleanup() call after n calls have thrown
ThrowChoices(n) == IF n < MaxThrows THEN ThrowAt ELSE {"none"}

\* a cleanup that removes the storage directory whoever supplied it
RemovesStorageAlways == TRUE

\* cleanup: if (!args.flags.storage), the storage directory is removed
RemovesStorage == ~flags.storage

\* a cleanup that closes the store before the swarm and the mirroring helper
CleanupSyncStoreFirst(td, out, throwAt) ==
    LET out1 == Debug(out, <<"Cleaning up...">>)
        steps == IF throwAt = "none" THEN <<"store", "swarm", "blind">> ELSE <<>>
    IN  [teardown |-> td \o steps
                        \o (IF throwAt = "none" /\ ~RemovesStorage THEN <<"kept">> ELSE <<>>),
         threw |-> throwAt # "none",
         awaitsRm |-> throwAt = "none" /\ RemovesStorage,
         out |-> out1]

\* cleanup() up to its first suspension point or its end
CleanupSync(td, out, throwAt) ==
    LET out1 == Debug(out, <<"Cleaning up...">>)
        steps == CASE throwAt = "blind" -> <<>>
                   [] throwAt = "swarm" -> <<"blind">>
                   [] throwAt = "store" -> <<"blind", "swarm">>
                   [] throwAt = "none" -> <<"blind", "swarm", "store">>
    IN  [teardown |-> td \o steps
                        \o (IF throwAt = "none" /\ ~RemovesStorage THEN <<"kept">> ELSE <<>>),
         threw |-> throwAt # "none",
         awaitsRm |-> throwAt = "none" /\ RemovesStorage,
         out |-> IF throwAt = "none" /\ ~RemovesStorage
                 THEN Debug(out1, <<"Keeping user-provided storage">>)
                 ELSE out1]

\* an rm() whose failure is swallowed without a word
RmOutcomeSilent(ok) ==
    /\ dir' = IF ok THEN "removed" ELSE dir
    /\ teardown' = Append(teardown, IF ok THEN "rm" ELSE "rmFailed")
    /\ stderr' = stderr

\* the outcome of the rm() a cleanup() awaits: the directory is removed, or the
\* failure is logged; then cleanup() returns
RmOutcome(ok) ==
    /\ dir' = IF ok THEN "removed" ELSE dir
    /\ teardown' = Append(teardown, IF ok THEN "rm" ELSE "rmFailed")
    /\ stderr' = IF ok THEN stderr
                 ELSE Append(stderr, ErrorLine(<<"Error removing temp storage:">>))

----------------------------------------------------------------------------------------------------------------------------------------
(* The room link. *)

\* decoded.subarray(0, 32): the length of the key
KeyLength == 32

\* a subarray that takes the byte at end as well
SubarrayInclusive(buf, begin, end) ==
    LET clamp(k) == IF k > Len(buf) THEN Len(buf) ELSE k
    IN  SubSeq(buf, clamp(begin) + 1, clamp(end + 1))

\* buf.subarray(begin, end): the bytes from begin up to end, both clamped to
\* the length of the buffer
Subarray(buf, begin, end) ==
    LET clamp(k) == IF k > Len(buf) THEN Len(buf) ELSE k
    IN  SubSeq(buf, clamp(begin) + 1, clamp(end))

\* no SchemaSheets has been constructed
NoSession == <<>>

\* a text z32 cannot decode
InvalidLink == [valid |-> FALSE, bytes |-> <<>>]

\* the link of a room: a key of KeyLength bytes and an encryption key of one byte
RoomKeyBytes == [i \in 1..KeyLength |-> i - 1]
GoodLink == [valid |-> TRUE, bytes |-> RoomKeyBytes \o <<255>>]

----------------
(* The process. *)

Running == exitCode = NotExited

\* an error nothing catches: Node reports it on the error stream and the
\* process exits with code 1 at once
Uncaught(err) ==
    /\ stderr' = Append(err, ErrorLine(<<"Uncaught">>))
    /\ exitCode' = ExitFail

Init ==
    /\ flags \in Flags
    /\ queryInput \in QueryInputs(flags.namedQuery)
    /\ roomLink \in {InvalidLink, GoodLink}
    /\ session = NoSession
    /\ closed = {}
    /\ room \in Rooms
    /\ synced = FALSE
    /\ main = "decode"
    /\ attempt = 0
    /\ pc = "none"
    /\ retries = 0
    /\ exitAfter = NotExited
    /\ timer = FALSE
    /\ gb = "armed"
    /\ teardown = <<>>
    /\ dir = "present"
    /\ stdout = Debug(<<>>, <<"Args parsed", "using storagePath",
                              "Creating store, swarm, wakeup, blind...",
                              "Store, swarm, wakeup, blind created">>)
    /\ stderr = <<>>
    /\ schemaId = <<>>
    /\ calls = <<>>
    /\ cleanups = 0
    /\ throws = 0
    /\ exitCode = NotExited

\* a rejection after which no retry is scheduled
RejectedUnhandled(td, out, err, k, n) ==
    /\ teardown' = td
    /\ cleanups' = k
    /\ throws' = n
    /\ exitAfter' = exitAfter
    /\ stdout' = out
    /\ stderr' = err
    /\ timer' = timer
    /\ pc' = "rejected"
    /\ exitCode' = exitCode

\* executeQuery() rejects: the immediate attempt's .catch schedules the retry;
\* nothing handles a rejection of the retry
Rejected(td, out, err, k, n) ==
    /\ teardown' = td
    /\ cleanups' = k
    /\ throws' = n
    /\ exitAfter' = exitAfter
    /\ IF attempt = 1
       THEN /\ stdout' = Debug(out, <<"Immediate execution failed, waiting for sync...">>)
            /\ stderr' = err
            /\ timer' = TRUE
            /\ pc' = "rejected"
            /\ exitCode' = exitCode
       ELSE /\ stdout' = out
            /\ Uncaught(err)
            /\ timer' = timer
            /\ pc' = "rejected"

\* process.exit(code) once the cleanup() call c has returned (after its rm, if any)
ExitAfterCleanup(c, err, code, k, n) ==
    /\ teardown' = c.teardown
    /\ cleanups' = k
    /\ throws' = n
    /\ stderr' = err
    /\ timer' = timer
    /\ IF c.awaitsRm
       THEN /\ pc' = "rm"
            /\ exitAfter' = code
            /\ stdout' = c.out
            /\ exitCode' = exitCode
       ELSE /\ pc' = "exited"
            /\ exitAfter' = exitAfter
            /\ stdout' = IF code = ExitOk THEN Debug(c.out, <<"Done!">>)
                         ELSE c.out
            /\ exitCode' = code

\* executeQuery: catch (error) { console.error; await cleanup(); process.exit(1) };
\* a cleanup() that throws here rejects executeQuery()
CatchBlock(td, out, err, k, n) ==
    \E throwAt \in ThrowChoices(n) :
        LET c == CleanupSync(td, out, throwAt)
            e == Append(err, ErrorLine(<<"Error:">>))
        IN  IF c.threw THEN Rejected(c.teardown, c.out, e, k + 1, n + 1)
            ELSE ExitAfterCleanup(c, e, ExitFail, k + 1, n)

\* executeQuery: await cleanup(); process.exit(code) inside the try block;
\* a cleanup() that throws here is caught by the catch block
Finish(out, err, code) ==
    \E throwAt \in ThrowChoices(throws) :
        LET c == CleanupSync(teardown, out, throwAt)
        IN  IF c.threw THEN CatchBlock(c.teardown, c.out, err, cleanups + 1, throws + 1)
            ELSE ExitAfterCleanup(c, err, code, cleanups + 1, throws)

\* an entry of calls
Call(op, id, query) == [op |-> op, schemaId |-> id, query |-> query]

\* getSchemas: one sheets.listSchemas() call of the loop is issued
CallListSchemas(out, n) ==
    /\ stdout' = Debug(out, <<"Attempting to list schemas">>)
    /\ calls' = calls \o n \o <<Call("listSchemas", <<>>, <<>>)>>
    /\ pc' = "listSchemas"

\* executeQuery() is invoked and runs up to its first suspension point
StartAttempt(out) ==
    /\ attempt' = attempt + 1
    /\ retries' = SchemaRetries
    /\ CallListSchemas(Debug(out, <<"Getting schemas...">>),
                       <<Call("getSchemas", <<>>, <<>>)>>)

\* z32.decode(roomLink), the two subarrays and the construction of SchemaSheets;
\* sheets.ready() is called. z32.decode throws on a text it cannot decode.
Decode ==
    /\ Running /\ main = "decode"
    /\ LET out == Debug(stdout, <<"Decoding room link...">>)
           decoded == roomLink.bytes
       IN  IF roomLink.valid
           THEN /\ session' = Append(session,
                                  [key |-> Subarray(decoded, 0, KeyLength),
                                   encryptionKey |-> Subarray(decoded, KeyLength,
                                                              Len(decoded))])
                /\ main' = "ready"
                /\ calls' = calls \o <<Call("decode", <<>>, <<>>), Call("ready", <<>>, <<>>)>>
                /\ stdout' = Debug(out, <<"Room link decoded", "Creating SchemaSheets...",
                                          "SchemaSheets created",
                                          "Waiting for sheets.ready()...">>)
                /\ UNCHANGED <<stderr, exitCode>>
           ELSE /\ stdout' = out
                /\ calls' = Append(calls, Call("decode", <<>>, <<>>))
                /\ Uncaught(stderr)
                /\ UNCHANGED <<main, session>>
    /\ UNCHANGED <<cleanups, throws, flags, queryInput, roomLink, closed, room, synced, attempt, pc, retries, exitAfter,
                   timer, gb, teardown, dir, schemaId>>

\* a setup that calls sheets.ready() again when it has failed
ReadyRetried ==
    /\ Running /\ main = "ready"
    /\ \E ok \in BOOLEAN :
        /\ main' = IF ok THEN "join" ELSE main
        /\ calls' = Append(calls, Call(IF ok THEN "join" ELSE "ready", <<>>, <<>>))
        /\ stdout' = stdout
        /\ UNCHANGED <<stderr, exitCode>>
    /\ UNCHANGED <<cleanups, throws, flags, queryInput, roomLink, session, closed, room, synced, attempt, pc, retries, exitAfter,
                   timer, gb, teardown, dir, schemaId>>

\* await sheets.ready() settles; swarm.join() is called
Ready ==
    /\ Running /\ main = "ready"
    /\ \E ok \in BOOLEAN :
        IF ok
        THEN /\ main' = "join"
             /\ calls' = Append(calls, Call("join", <<>>, <<>>))
             /\ stdout' = Debug(stdout, <<"sheets.ready() complete", "Joining swarm...">>)
             /\ UNCHANGED <<stderr, exitCode>>
        ELSE /\ Uncaught(stderr)
             /\ UNCHANGED <<main, stdout, calls>>
    /\ UNCHANGED <<cleanups, throws, flags, queryInput, roomLink, session, closed, room, synced, attempt, pc, retries, exitAfter,
                   timer, gb, teardown, dir, schemaId>>

\* await swarm.join() settles; the immediate executeQuery() is started
Join ==
    /\ Running /\ main = "join"
    /\ \E ok \in BOOLEAN :
        IF ok
        THEN /\ main' = "running"
             /\ StartAttempt(Debug(stdout, <<"Swarm joined", "Adding autobase background...",
                                             "Autobase background added",
                                             "Attempting immediate query execution...">>))
             /\ UNCHANGED <<stderr, exitCode>>
        ELSE /\ Uncaught(stderr)
             /\ UNCHANGED <<main, stdout, attempt, pc, retries, calls>>
    /\ UNCHANGED <<cleanups, throws, flags, queryInput, roomLink, session, closed, room, synced, exitAfter,
                   timer, gb, teardown, dir, schemaId>>

\* what the store answers from its local data
StoreSchemas == IF synced THEN room.schemas ELSE <<>>
StoreQueries == IF synced THEN room.queries ELSE <<>>
StoreResults == IF synced THEN room.results ELSE <<>>

\* a loop in which a call that throws does not count as an attempt
AfterListSchemasThrowFree(r, result, threw) ==
    LET r2 == IF ~threw /\ Len(result) = 0 THEN r - 1 ELSE r
    IN  [retries |-> r2, pause |-> (threw \/ Len(result) = 0) /\ r2 > 0]

\* a loop that pauses once more after its last attempt and then calls again
AfterListSchemasOffByOne(r, result, threw) ==
    LET failed == threw \/ Len(result) = 0
        r2 == IF failed THEN r - 1 ELSE r
    IN  [retries |-> r2, pause |-> failed /\ r2 >= 0]

\* getSchemas: the state of the loop after one listSchemas() call that threw
\* or returned result: the new retries, and whether a 2s pause follows
AfterListSchemas(r, result, threw) ==
    LET failed == threw \/ Len(result) = 0
        r2 == IF failed THEN r - 1 ELSE r
    IN  [retries |-> r2, pause |-> failed /\ r2 > 0]

\* a selection of the last schema of the list instead of the first
QueryStoreLastSchema(out, schemas) ==
    LET id == schemas[Len(schemas)].schemaId
    IN  /\ schemaId' = id
        /\ stdout' = out
        /\ calls' = Append(calls, Call(IF flags.namedQuery THEN "listQueries" ELSE "list", id,
                                       IF flags.namedQuery THEN <<>> ELSE queryInput))
        /\ pc' = IF flags.namedQuery THEN "listQueries" ELSE "list"

\* an expression mode that takes the part before a ':' as the query
QueryStoreSelector(out, schemas) ==
    LET id == schemas[1].schemaId
    IN  /\ schemaId' = id
        /\ stdout' = out
        /\ IF flags.namedQuery
           THEN /\ calls' = Append(calls, Call("listQueries", id, <<>>))
                /\ pc' = "listQueries"
           ELSE /\ calls' = Append(calls, Call("list", id, ParseNamed(queryInput).queryName))
                /\ pc' = "list"

\* executeQuery after getSchemas returned a non-empty list: the first store
\* query of the mode is issued
QueryStore(out, schemas) ==
    LET id == schemas[1].schemaId
        out1 == Debug(out, <<"Using schema ID">>)
    IN  /\ schemaId' = id
        /\ IF flags.namedQuery
           THEN /\ stdout' = Debug(out1, <<IF ParseNamed(queryInput).hasProperties
                                           THEN "Named query, properties"
                                           ELSE "Named query single property mode",
                                           "Listing queries...">>)
                /\ calls' = Append(calls, Call("listQueries", id, <<>>))
                /\ pc' = "listQueries"
           ELSE /\ stdout' = Debug(out1, <<"JMESPath query", "Executing JMESPath query...">>)
                /\ calls' = Append(calls, Call("list", id, queryInput))
                /\ pc' = "list"

\* await sheets.listSchemas() settles
ListSchemasReturns ==
    /\ Running /\ pc = "listSchemas"
    /\ \E threw \in BOOLEAN :
        LET result == IF threw THEN <<>> ELSE StoreSchemas
            loop == AfterListSchemas(retries, result, threw)
            out == Debug(stdout, <<IF threw THEN "Error listing schemas"
                                   ELSE "listSchemas() returned">>)
        IN  /\ retries' = loop.retries
            /\ IF loop.pause
               THEN /\ stdout' = Debug(out, <<"waiting 2s before retry...">>)
                    /\ calls' = Append(calls, Call("pause", <<>>, <<>>))
                    /\ pc' = "pause"
                    /\ UNCHANGED <<schemaId, stderr, teardown, exitAfter, timer, cleanups,
                                   throws, exitCode>>
               ELSE IF Len(result) = 0
               THEN /\ Finish(Debug(out, <<"Schemas retrieved">>),
                              Append(stderr, ErrorLine(<<"No schemas found">>)), ExitFail)
                    /\ UNCHANGED <<schemaId, calls>>
               ELSE /\ QueryStore(Debug(out, <<"Schemas retrieved">>), result)
                    /\ UNCHANGED <<stderr, teardown, exitAfter, timer, cleanups, throws,
                                   exitCode>>
    /\ UNCHANGED <<flags, queryInput, roomLink, session, closed, room, synced, main, attempt, gb, dir>>

\* getSchemas: the 2s pause elapses and the loop calls listSchemas() again
PauseElapses ==
    /\ Running /\ pc = "pause"
    /\ CallListSchemas(stdout, <<>>)
    /\ UNCHANGED <<cleanups, throws, flags, queryInput, roomLink, session, closed, room, synced, main, attempt, retries, exitAfter,
                   timer, gb, teardown, dir, stderr, schemaId, exitCode>>

\* await sheets.listQueries(schemaId) settles
ListQueriesReturns ==
    /\ Running /\ pc = "listQueries"
    /\ \E threw \in BOOLEAN :
        LET queries == StoreQueries
            queryName == ParseNamed(queryInput).queryName
            found == SelectSeq(queries, LAMBDA q : q.name = queryName)
            out == Debug(stdout, <<"Queries retrieved">>)
        IN  IF threw
            THEN /\ CatchBlock(teardown, stdout, stderr, cleanups, throws)
                 /\ UNCHANGED calls
            ELSE IF found = <<>>
            THEN /\ Finish(out, Append(stderr, ErrorLine(<<"Query ", DQuote>> \o queryName
                                                   \o <<DQuote, " not found">>)),
                           ExitFail)
                 /\ UNCHANGED calls
            ELSE /\ stdout' = Debug(out, <<"Found query", "Executing named query...">>)
                 /\ calls' = Append(calls, Call("list", schemaId, found[1].JMESPathQuery))
                 /\ pc' = "list"
                 /\ UNCHANGED <<stderr, teardown, exitAfter, timer, cleanups, throws,
                                   exitCode>>
    /\ UNCHANGED <<flags, queryInput, roomLink, session, closed, room, synced, main, attempt, retries, gb, dir,
                   schemaId>>

\* await sheets.list(schemaId, { query }) settles; the results are written
ListReturns ==
    /\ Running /\ pc = "list"
    /\ \E threw \in BOOLEAN :
        LET results == StoreResults
            out == Debug(stdout, <<"query executed">>)
            named == NamedOutput(results, ParseNamed(queryInput))
            written == ~threw /\ Len(results) > 0 /\ ~(flags.namedQuery /\ named.threw)
        IN  /\ IF threw
               THEN CatchBlock(teardown, stdout, stderr, cleanups, throws)
               ELSE IF Len(results) = 0
               THEN Finish(out, Append(stderr, ErrorLine(<<"No results found">>)), ExitFail)
               ELSE IF flags.namedQuery /\ named.threw
               THEN CatchBlock(teardown, out, stderr, cleanups, throws)
               ELSE Finish(Emit(out, IF flags.namedQuery THEN named.lines
                                     ELSE ExpressionOutput(results)),
                           stderr, ExitOk)
            /\ calls' = IF written THEN Append(calls, Call("output", <<>>, <<>>)) ELSE calls
    /\ UNCHANGED <<flags, queryInput, roomLink, session, closed, room, synced, main, attempt, retries, gb, dir,
                   schemaId>>

\* the rm() of the cleanup() that executeQuery awaits settles; process.exit follows
RmReturns ==
    /\ Running /\ pc = "rm"
    /\ \E ok \in BOOLEAN :
        /\ RmOutcome(ok)
        /\ stdout' = Debug(stdout, (IF ok THEN <<"Temporary storage removed">> ELSE <<>>)
                                   \o (IF exitAfter = ExitOk THEN <<"Done!">> ELSE <<>>))
    /\ pc' = "exited"
    /\ exitCode' = exitAfter
    /\ UNCHANGED <<cleanups, throws, flags, queryInput, roomLink, session, closed, room, synced, main, attempt, retries, exitAfter,
                   timer, gb, schemaId, calls>>

\* a retry that sets its timer again
RetryFiresRearmed ==
    /\ Running /\ timer
    /\ timer' = TRUE
    /\ StartAttempt(Debug(stdout, <<"Retrying after sync delay...">>))
    /\ UNCHANGED <<cleanups, throws, flags, queryInput, roomLink, session, closed, room, synced, main, exitAfter, gb, teardown, dir,
                   stderr, schemaId, exitCode>>

\* the 200ms timer set by the immediate attempt's .catch fires: executeQuery() again
RetryFires ==
    /\ Running /\ timer
    /\ timer' = FALSE
    /\ StartAttempt(Debug(stdout, <<"Retrying after sync delay...">>))
    /\ UNCHANGED <<cleanups, throws, flags, queryInput, roomLink, session, closed, room, synced, main, exitAfter, gb, teardown, dir,
                   stderr, schemaId, exitCode>>

\* a signal handler that exits without running cleanup()
InterruptWithoutCleanup ==
    /\ Running /\ main # "decode" /\ gb = "armed"
    /\ gb' = "done"
    /\ exitCode' = 130
    /\ UNCHANGED <<flags, queryInput, roomLink, session, closed, room, synced, main, attempt, pc, retries, exitAfter,
                   timer, teardown, dir, stdout, stderr, schemaId, calls, cleanups, throws>>

\* graceful-goodbye's handler on SIGINT/SIGTERM: cleanup() is run and, once it has
\* settled, the process exits with the signal's code. The handler acts once.
Interrupt ==
    /\ Running /\ main # "decode" /\ gb = "armed"
    /\ \E throwAt \in ThrowChoices(throws) :
        LET c == CleanupSync(teardown, stdout, throwAt)
        IN  /\ teardown' = c.teardown
            /\ stdout' = c.out
            /\ cleanups' = cleanups + 1
            /\ throws' = IF c.threw THEN throws + 1 ELSE throws
            /\ IF c.awaitsRm
               THEN gb' = "rm" /\ exitCode' = exitCode
               ELSE gb' = "done" /\ exitCode' \in (IF c.threw THEN {130, ExitFail} ELSE {130})
    /\ UNCHANGED <<flags, queryInput, roomLink, session, closed, room, synced, main, attempt, pc, retries, exitAfter,
                   timer, dir, stderr, schemaId, calls>>

\* the rm() of the cleanup() that graceful-goodbye awaits settles
GoodbyeRmReturns ==
    /\ Running /\ gb = "rm"
    /\ \E ok \in BOOLEAN :
        /\ RmOutcome(ok)
        /\ stdout' = Debug(stdout, IF ok THEN <<"Temporary storage removed">> ELSE <<>>)
    /\ gb' = "done"
    /\ exitCode' = 130
    /\ UNCHANGED <<cleanups, throws, flags, queryInput, roomLink, session, closed, room, synced, main, attempt, pc, retries, exitAfter,
                   timer, schemaId, calls>>

\* swarm.on('connection'): a peer connects and the room is replicated into the store
Replicate ==
    /\ Running /\ main \in {"join", "running"} /\ ~synced
    /\ \A i \in DOMAIN teardown : teardown[i] \notin {"swarm", "store"}
    /\ synced' = TRUE
    /\ stdout' = Debug(stdout, <<"Swarm connection established">>)
    /\ UNCHANGED <<cleanups, throws, flags, queryInput, roomLink, session, closed, room, main, attempt, pc, retries, exitAfter,
                   timer, gb, teardown, dir, stderr, schemaId, calls, exitCode>>

\* the resources cleanup() closes
Resources == {"blind", "swarm", "store"}

\* cleanup: blind.close(), swarm.destroy() and store.close() are called and the
\* promises they return are not awaited: each close completes at a later turn
\* of the event loop
CloseCompletes ==
    /\ Running
    /\ \E r \in (Range(teardown) \cap Resources) \ closed : closed' = closed \cup {r}
    /\ UNCHANGED <<flags, queryInput, roomLink, session, room, synced, main, attempt, pc,
                   retries, exitAfter, timer, gb, teardown, dir, stdout, stderr, schemaId,
                   calls, cleanups, throws, exitCode>>

Next ==
    \/ Decode
    \/ Ready
    \/ Join
    \/ ListSchemasReturns
    \/ PauseElapses
    \/ ListQueriesReturns
    \/ ListReturns
    \/ RmReturns
    \/ RetryFires
    \/ Interrupt
    \/ GoodbyeRmReturns
    \/ Replicate

Spec == Init /\ [][Next]_vars

\* the steps that are the settling of a pending call or the firing of a timer
Settles ==
    \/ Decode
    \/ Ready
    \/ Join
    \/ ListSchemasReturns
    \/ PauseElapses
    \/ ListQueriesReturns
    \/ ListReturns
    \/ RmReturns
    \/ RetryFires
    \/ GoodbyeRmReturns

\* short query arguments, with and without a property list
LiveQueryInputs == {<<"q">>, <<"q", ":", "a">>}

\* rooms whose first row is a bare value
LiveRooms ==
    {r \in [schemas : SchemaLists, queries : QueryLists,
            results : {<<>>, <<[json |-> JNull]>>, <<[json |-> JNum(<<"7">>)]>>}] :
        r.schemas = <<>> => r.results = <<>>}

\* the invocations without --debug, --json and --export, these flags changing
\* what is written and not which calls are made
LiveInit ==
    /\ flags \in {f \in Flags : ~f.debug /\ ~f.json /\ ~f.export}
    /\ queryInput \in LiveQueryInputs
    /\ roomLink \in {InvalidLink, GoodLink}
    /\ room \in LiveRooms
    /\ session = NoSession
    /\ closed = {}
    /\ synced = FALSE
    /\ main = "decode"
    /\ attempt = 0
    /\ pc = "none"
    /\ retries = 0
    /\ exitAfter = NotExited
    /\ timer = FALSE
    /\ gb = "armed"
    /\ teardown = <<>>
    /\ dir = "present"
    /\ stdout = <<>>
    /\ stderr = <<>>
    /\ schemaId = <<>>
    /\ calls = <<>>
    /\ cleanups = 0
    /\ throws = 0
    /\ exitCode = NotExited

\* the process when every pending call eventually returns or fails and every
\* timer eventually fires; a signal or a peer need not come
LiveSpec == LiveInit /\ [][Next]_vars /\ WF_vars(Settles)

\* the process together with the completion of the closes that cleanup() calls.
\* No step of the process reads closed, so Spec leaves the completions out.
TeardownNext ==
    \/ Decode
    \/ Ready
    \/ Join
    \/ ListSchemasReturns
    \/ PauseElapses
    \/ ListQueriesReturns
    \/ ListReturns
    \/ RmReturns
    \/ RetryFires
    \/ Interrupt
    \/ GoodbyeRmReturns
    \/ Replicate
    \/ CloseCompletes

TeardownSpec == Init /\ [][TeardownNext]_vars

----------------------------------------------------------------------------
(* Invocations on a store that already holds the room (-s with a directory *)
(* synced earlier), over a wider range of query arguments and records.     *)

\* property names: every string over these characters up to MaxNameLen
NameChars == {"a", "B", "1", "_", "-", Eszett}
Names == UNION {[1..n -> NameChars] : n \in 0..MaxNameLen}

\* named-query arguments: no property list, an empty one, lists with spaces,
\* with an array index, and with names every object inherits
NamedInputs ==
    { <<"q">>,
      <<"q", ":">>,
      <<"q", ":", " ", ",", " ">>,
      <<"q", ":", "a", ",", " ", "x", ",", "b", "-", "c">>,
      <<"q", ":", "b", "-", "c", ",", "a">>,
      <<"q", ":", "b", ",", "0">>,
      <<"q", ":">> \o ToStringKey,
      <<"q", ":", "a", ",">> \o ProtoKey }

\* a record with array index keys, in the key order of a JavaScript object
Record3 == JObj(<< <<<<"0">>, JStr(<<"x">>)>>, <<<<"b">>, JStr(<<"y">>)>> >>)

\* result sequences: objects, scalars and null, one result or several
OutputResultLists ==
    { <<[json |-> Record1], [json |-> Record2]>>,
      <<[json |-> Record1]>>,
      <<[json |-> Record3]>>,
      <<[json |-> JObj(<<>>)]>>,
      <<[json |-> JStr(<<"a", DQuote>>)]>>,
      <<[json |-> JNum(<<"7">>)]>>,
      <<[json |-> JNull]>>,
      <<[json |-> JStr(<<"s">>)], [json |-> Record1]>> }

\* pairs of distinct one-character names, an array index key first as in the
\* key order of a JavaScript object, and the record that has the two as fields
NamePairs == {p \in NameChars \X NameChars : p[1] # p[2] /\ p[2] \notin Range(Digit)}
PairRecord(p) == JObj(<< <<<<p[1]>>, JStr(<<"v">>)>>, <<<<p[2]>>, JStr(<<"w">>)>> >>)

\* the record that has the one field name
NameRecord(name) == JObj(<< <<name, JStr(<<"v">>)>> >>)

OutputFlags(named, json, export) ==
    [storage |-> TRUE, debug |-> FALSE, namedQuery |-> named, json |-> json,
     export |-> export]

\* the queries of the room
RoomQueries ==
    <<[name |-> <<"Q">>, JMESPathQuery |-> <<"e">>],
      [name |-> <<"q">>, JMESPathQuery |-> <<"f">>]>>

\* an invocation: its arguments, and the queries and the result sequence of the room
Case(fl, q, link, queries, rs) ==
    [flags |-> fl, queryInput |-> q, roomLink |-> link, queries |-> queries,
     results |-> rs]

\* the invocations: every flag combination over the arguments and result
\* sequences above, every name as the one property requested of, or found
\* in, the record that has it, and every pair of names likewise
OutputCases ==
    {Case(OutputFlags(named, json, export), q, GoodLink, RoomQueries, rs) :
        named \in {TRUE}, json \in BOOLEAN, export \in BOOLEAN,
        q \in NamedInputs, rs \in OutputResultLists}
    \cup
    {Case(OutputFlags(FALSE, json, export), q, GoodLink, RoomQueries, rs) :
        json \in BOOLEAN, export \in BOOLEAN,
        q \in QueryInputs(FALSE), rs \in OutputResultLists}
    \cup
    {Case(OutputFlags(TRUE, FALSE, export), <<"q", ":">> \o name, GoodLink, RoomQueries,
          <<[json |-> NameRecord(name)]>>) :
        export \in BOOLEAN, name \in Names}
    \cup
    {Case(OutputFlags(FALSE, FALSE, export), q, GoodLink, RoomQueries,
          <<[json |-> NameRecord(name)]>>) :
        export \in BOOLEAN, q \in QueryInputs(FALSE), name \in Names}
    \cup
    {Case(OutputFlags(named, FALSE, export), <<"q", ":", p[1], ",", p[2]>>, GoodLink,
          RoomQueries, <<[json |-> PairRecord(p)]>>) :
        named \in BOOLEAN, export \in BOOLEAN, p \in NamePairs}

\* the state after construction of one of the invocations, the room being in
\* the store already
LocalInit(cases) ==
    /\ \E c \in cases :
        /\ flags = c.flags
        /\ queryInput = c.queryInput
        /\ roomLink = c.roomLink
        /\ room = [schemas |-> <<[schemaId |-> <<"s", Digit[2]>>]>>,
                   queries |-> c.queries,
                   results |-> c.results]
    /\ session = NoSession
    /\ closed = {}
    /\ synced = TRUE
    /\ main = "decode"
    /\ attempt = 0
    /\ pc = "none"
    /\ retries = 0
    /\ exitAfter = NotExited
    /\ timer = FALSE
    /\ gb = "armed"
    /\ teardown = <<>>
    /\ dir = "present"
    /\ stdout = Debug(<<>>, <<"Args parsed">>)
    /\ stderr = <<>>
    /\ schemaId = <<>>
    /\ calls = <<>>
    /\ cleanups = 0
    /\ throws = 0
    /\ exitCode = NotExited

OutputInit == LocalInit(OutputCases)

\* with the directory supplied no rm() is awaited, and with the room already
\* in the store no replication changes what the store returns
OutputNext ==
    \/ Decode
    \/ Ready
    \/ Join
    \/ ListSchemasReturns
    \/ PauseElapses
    \/ ListQueriesReturns
    \/ ListReturns
    \/ RetryFires
    \/ Interrupt

OutputSpec == OutputInit /\ [][OutputNext]_vars

----------------------------------------------------------------------------
(* Invocations over a range of room links. *)

\* keys, and encryption keys of every length up to MaxSecretLen
Identifiers == {RoomKeyBytes, [i \in 1..KeyLength |-> 255 - i]}
Secrets == UNION {[1..k -> {0, 255}] : k \in 0..MaxSecretLen}

\* the links z32 decodes: a key followed by an encryption key, and links that
\* decode to fewer bytes than a key has; and a text z32 does not decode
RoomLinks ==
    {[valid |-> TRUE, bytes |-> id \o secret] : id \in Identifiers, secret \in Secrets}
    \cup
    {[valid |-> TRUE, bytes |-> SubSeq(id, 1, n)] :
        id \in Identifiers, n \in {0, 1, KeyLength - 1}}
    \cup
    {InvalidLink}

DecodeCases ==
    {Case(OutputFlags(named, FALSE, FALSE), q, link, RoomQueries, <<[json |-> Record1]>>) :
        named \in BOOLEAN, q \in {<<"q">>}, link \in RoomLinks}

DecodeInit == LocalInit(DecodeCases)

DecodeSpec == DecodeInit /\ [][OutputNext]_vars

----------------------------------------------------------------------------
(* Invocations over a range of values to escape. *)

\* the characters escapeShellValue treats, and the letter its replacement of
\* the newline introduces
EscapeChars == {Backslash, DQuote, Backtick, Dollar, Newline, "n"}
Values == UNION {[1..n -> EscapeChars] : n \in 0..MaxValueLen}

\* the record whose one field has the value
ValueRecord(value) == JObj(<< <<<<"a">>, JStr(value)>> >>)

EscapeCases ==
    {Case(OutputFlags(named, FALSE, FALSE), q, GoodLink, RoomQueries,
          <<[json |-> ValueRecord(value)]>>) :
        named \in BOOLEAN, q \in {<<"q", ":", "a">>}, value \in Values}

EscapeInit == LocalInit(EscapeCases)

EscapeSpec == EscapeInit /\ [][OutputNext]_vars

----------------------------------------------------------------------------
(* Invocations over a range of query arguments. *)

\* a letter and the characters the parsing of a named-query argument treats
ParseChars == {"a", ":", ",", " "}
Inputs == UNION {[1..n -> ParseChars] : n \in 0..MaxInputLen}

\* the queries of a room whose second query is named a
ParseQueries ==
    <<[name |-> <<"A">>, JMESPathQuery |-> <<"e">>],
      [name |-> <<"a">>, JMESPathQuery |-> <<"f">>]>>

ParseCases ==
    {Case(OutputFlags(named, FALSE, FALSE), q, GoodLink, ParseQueries,
          <<[json |-> Record1]>>) :
        named \in BOOLEAN, q \in Inputs}

ParseInit == LocalInit(ParseCases)

ParseSpec == ParseInit /\ [][OutputNext]_vars

----------------------------------------------------------------------------
(* Observations used by the properties. *)

Exited == exitCode # NotExited

\* the number of entries of calls with the given op
NumCalls(log, op) == Cardinality({i \in DOMAIN log : log[i].op = op})

\* the number of result sets written to the output stream
NumOutputs == NumCalls(calls, "output")

\* the entries of calls that belong to the latest getSchemas call
LatestGetSchemas ==
    LET marks == {i \in DOMAIN calls : calls[i].op = "getSchemas"}
    IN  IF marks = {} THEN <<>>
        ELSE SubSeq(calls, (CHOOSE i \in marks : \A j \in marks : j <= i) + 1, Len(calls))

NumListSchemas == NumCalls(LatestGetSchemas, "listSchemas")
NumPauses == NumCalls(LatestGetSchemas, "pause")

\* the diagnostics of a failed pipeline attempt
IsPipelineError(line) ==
    line.text[1] \in {"No schemas found", "Query ", "No results found", "Error:"}

NumNoSchemas(err) ==
    Cardinality({i \in DOMAIN err : err[i].text = <<"No schemas found">>})

\* a cleanup() call has run to its end
CleanupCompleted == \E i \in DOMAIN teardown : teardown[i] \in {"rm", "rmFailed", "kept"}

\* the room data is in the local store and answers the query, and nothing else
\* (no interrupt, no failing close) stands in the way of a pipeline attempt
AttemptWouldSucceed ==
    /\ synced
    /\ room.schemas # <<>>
    /\ room.results # <<>>
    /\ flags.namedQuery =>
          /\ \E i \in DOMAIN room.queries :
                room.queries[i].name = ParseNamed(queryInput).queryName
          /\ ~NamedOutput(room.results, ParseNamed(queryInput)).threw
    /\ gb = "armed"
    /\ throws = 0

----------------------------------------------------------------------------
(* The properties. *)

\* C1: a failure of the immediate attempt does not end the process: whenever
\* executeQuery ends the process with a failure code, that was the retry.
C1_ImmediateFailureIsRetried ==
    (pc = "exited" /\ exitCode = ExitFail) => attempt = 2

\* C2: at most one result set is written; and when the immediate attempt has
\* failed although a pipeline attempt would succeed, the process ends with
\* exactly one result set written, one teardown and exit code 0.
C2_RaceSingleEmission ==
    /\ NumOutputs <= 1
    /\ (Exited /\ (\E i \in DOMAIN stderr : IsPipelineError(stderr[i]))
               /\ AttemptWouldSucceed)
          => (NumOutputs = 1 /\ cleanups = 1 /\ exitCode = ExitOk)

\* C3: cleanup() is performed exactly once per invocation: never a second
\* time, and once by the time the process has exited.
C3_TeardownExactlyOnce ==
    /\ cleanups <= 1
    /\ Exited => cleanups = 1

\* C4: an exit with code 1 comes with a diagnostic on the error stream and
\* after a completed teardown.
C4_FatalAfterTeardown ==
    exitCode = ExitFail => (stderr # <<>> /\ CleanupCompleted)

\* C5: a process that exits with a non-zero code has written no result.
C5_NoOutputOnFailure ==
    (Exited /\ exitCode # ExitOk) =>
        (NumOutputs = 0 /\ \A i \in DOMAIN stdout : stdout[i].kind # "result")

\* C6: the output stream holds result lines only; no debug line is written to it.
C6_DebugNotOnOutput ==
    \A i \in DOMAIN stdout : stdout[i].kind = "result"

\* C7: one getSchemas call makes at most 3 listSchemas calls and at most 2
\* pauses, one pause after each attempt but the last; and it returns without
\* schemas only after 3 calls, the invocation then ending with the no-schema
\* fatal condition.
C7_Budget ==
    /\ NumListSchemas <= SchemaRetries
    /\ NumPauses <= SchemaRetries - 1
    /\ pc = "pause" => (NumPauses = NumListSchemas /\ NumListSchemas < SchemaRetries)
    /\ (attempt >= 1 /\ pc # "pause") => NumPauses = NumListSchemas - 1

C7_Exhaustion ==
    (pc = "listSchemas" /\ pc' \notin {"listSchemas", "pause", "listQueries", "list"})
        => /\ NumListSchemas = SchemaRetries
           /\ NumNoSchemas(stderr') = NumNoSchemas(stderr) + 1
           /\ \/ exitCode' = ExitFail
              \/ pc' = "rm" /\ exitAfter' = ExitFail
              \/ pc' = "rejected" /\ timer'

C7_SchemaRetryBudget == [](C7_Budget) /\ [][C7_Exhaustion]_vars

\* C7 witness: empty, empty, non-empty: the third call succeeded after 2 pauses
C7_Witness ==
    pc \in {"listQueries", "list"} /\ NumListSchemas = SchemaRetries
        /\ NumPauses = SchemaRetries - 1

\* C8: a storage directory the user supplied is never removed, nor is its
\* removal attempted.
C8_UserStorageKept ==
    flags.storage =>
        (dir = "present" /\ \A i \in DOMAIN teardown : teardown[i] \notin {"rm", "rmFailed"})

\* C8 witness: an invocation with -s has failed and exited after its teardown
C8_Witness ==
    flags.storage /\ exitCode = ExitFail /\ CleanupCompleted

\* C9: without -s, by the time the process has exited the removal of the
\* storage directory has been performed.
C9_TempStorageRemovedAtExit ==
    (Exited /\ ~flags.storage) =>
        \E i \in DOMAIN teardown : teardown[i] \in {"rm", "rmFailed"}

\* C10: once an interrupt has been handled, cleanup() has been run: it was
\* called and, unless a close threw, the helper, the swarm and the store are closed.
C10_InterruptRunsCleanup ==
    gb # "armed" =>
        /\ cleanups >= 1
        /\ throws = 0 => {"blind", "swarm", "store"} \subseteq Range(teardown)

\* C10 witness: the interrupt came during a schema-listing pause and the
\* process has exited
C10_Witness ==
    Exited /\ gb = "done" /\ pc = "pause"

\* C11: a failing rm() of the temporary directory is logged on the error stream
\* and changes nothing else: the cleanup() that awaited it returns and the exit
\* that was to follow it follows, with code 0 after a printed result.
RmFailureLine == ErrorLine(<<"Error removing temp storage:">>)

C11_Logged ==
    Cardinality({i \in DOMAIN teardown : teardown[i] = "rmFailed"})
        = Cardinality({i \in DOMAIN stderr : stderr[i] = RmFailureLine})

C11_Step ==
    (teardown' = Append(teardown, "rmFailed"))
        => /\ stderr' = Append(stderr, RmFailureLine)
           /\ dir' = dir
           /\ stdout' = stdout \/ flags.debug
           /\ exitCode' # NotExited
           /\ gb' = gb => (pc' = "exited" /\ exitCode' = exitAfter)
           /\ (gb' = gb /\ NumOutputs = 1 /\ throws = 0) => exitCode' = ExitOk

C11_RmFailureIsLoggedOnly == [](C11_Logged) /\ [][C11_Step]_vars

C11_Witness ==
    /\ exitCode = ExitOk /\ NumOutputs = 1
    /\ teardown # <<>> /\ teardown[Len(teardown)] = "rmFailed"
    /\ stderr = <<RmFailureLine>>

----------------------------------------------------------------------------
(* What a step writes, and what the output formats are said to be. *)

\* the step writes a result set
Written == Len(calls') = Len(calls) + 1 /\ calls'[Len(calls')].op = "output"

\* the result lines the step adds to the output stream
WrittenLines ==
    LET added == SubSeq(stdout', Len(stdout) + 1, Len(stdout'))
        results == SelectSeq(added, LAMBDA l : l.kind = "result")
    IN  [i \in DOMAIN results |-> results[i].text]

\* the first result of the query, and the properties the argument requests
FirstRecord == room.results[1].json
Requested == ParseNamed(queryInput).properties
HasPropertyList == ParseNamed(queryInput).hasProperties

\* the record's own declared fields
IsField(record, name) == \E i \in DOMAIN record.f : record.f[i][1] = name
FieldValue(record, name) ==
    record.f[CHOOSE i \in DOMAIN record.f : record.f[i][1] = name][2]

\* a shell assignment line for the name and the value, as the formats describe it
ExportPrefix == IF flags.export THEN <<"e","x","p","o","r","t"," ">> ELSE <<>>
Assignment(name, value) ==
    ExportPrefix \o propertyToVarName(name) \o <<"=", DQuote>>
    \o escapeShellValue(value) \o <<DQuote>>

\* C12: named mode with a property list and without --json writes one
\* assignment line for each requested property that is a field of the first
\* record, in request order, and nothing for a property the record lacks.
C12_Step ==
    (Written /\ flags.namedQuery /\ HasPropertyList /\ ~flags.json
             /\ FirstRecord.t = "obj")
        => LET present == SelectSeq(Requested, LAMBDA p : IsField(FirstRecord, p))
           IN  WrittenLines = [i \in DOMAIN present |->
                                  Assignment(present[i], FieldValue(FirstRecord, present[i]))]

C12_NamedShellLines == [][C12_Step]_vars

\* C13: named mode with a property list and --json writes one JSON object
\* whose keys are the requested properties that are fields of the first
\* record, in request order, with the record's values.
C13_Step ==
    (Written /\ flags.namedQuery /\ HasPropertyList /\ flags.json
             /\ FirstRecord.t = "obj")
        => LET present == SelectSeq(Requested, LAMBDA p : IsField(FirstRecord, p))
           IN  WrittenLines =
                 << <<"{">>
                    \o JoinComma([i \in DOMAIN present |->
                           JsonQuote(present[i]) \o <<":">>
                           \o JsonScalar(FieldValue(FirstRecord, present[i]))])
                    \o <<"}">> >>

C13_NamedJsonObject == [][C13_Step]_vars

\* C14: named mode without a property list writes one line, the bare value of
\* the first field of the first record, whatever --json and --export are.
C14_Step ==
    (Written /\ flags.namedQuery /\ ~HasPropertyList
             /\ FirstRecord.t = "obj" /\ FirstRecord.f # <<>>)
        => WrittenLines = <<JsString(FirstRecord.f[1][2])>>

C14_SinglePropertyMode == [][C14_Step]_vars

C14_Witness ==
    /\ flags.namedQuery /\ flags.json /\ flags.export
    /\ queryInput = <<"q">>
    /\ Len(FirstRecord.f) = 2
    /\ exitCode = ExitOk
    /\ stdout = <<ResultLine(<<"1">>)>>

\* C15: a property list that is empty after trimming and filtering writes
\* nothing to the output stream, whatever --json and --export are, and the
\* undisturbed invocation exits with code 0.
C15_NoPropertiesNoOutput ==
    (flags.namedQuery /\ HasPropertyList /\ Requested = <<>>)
        => /\ \A i \in DOMAIN stdout : stdout[i].kind # "result"
           /\ (NumOutputs = 1 /\ pc = "exited" /\ throws = 0 /\ gb = "armed")
                 => exitCode = ExitOk

\* C16: expression mode writes a scalar first result bare, the same under
\* all four combinations of --json and --export.
C16_Step ==
    (Written /\ ~flags.namedQuery /\ FirstRecord.t \in {"str", "num", "null"})
        => WrittenLines = <<JsString(FirstRecord)>>

C16_ScalarPrintedBare == [][C16_Step]_vars

\* C17: expression mode with neither --json nor --export writes a single bare
\* value, the first property value of the first result; assignment lines
\* appear only under --export.
C17_Step ==
    (Written /\ ~flags.namedQuery /\ ~flags.json /\ ~flags.export
             /\ FirstRecord.t = "obj" /\ FirstRecord.f # <<>>)
        => WrittenLines = <<JsString(FirstRecord.f[1][2])>>

C17_DefaultIsBareValue == [][C17_Step]_vars

\* C18: expression mode on an object first result: without --json one
\* assignment line for each of its fields in field order and nothing of the
\* later results; with --json the JSON of that value when it is the only
\* result, and the JSON array of all results' values otherwise.
C18_Step ==
    (Written /\ ~flags.namedQuery /\ FirstRecord.t = "obj")
        => WrittenLines =
             IF ~flags.json
             THEN [i \in DOMAIN FirstRecord.f |->
                      Assignment(FirstRecord.f[i][1], FirstRecord.f[i][2])]
             ELSE IF Len(room.results) = 1
             THEN <<JsonStringify(FirstRecord)>>
             ELSE << <<"[">>
                     \o JoinComma([i \in DOMAIN room.results |->
                                      JsonStringify(room.results[i].json)])
                     \o <<"]">> >>

NamesInPlay ==
    IF flags.namedQuery THEN Range(Requested)
    ELSE IF room.results # <<>> /\ FirstRecord.t = "obj"
         THEN {FirstRecord.f[i][1] : i \in DOMAIN FirstRecord.f}
         ELSE {}

\* C19: propertyToVarName is idempotent, keeps the length of its argument and
\* yields only characters of [A-Z0-9_], for every name an invocation converts.
C19_Step ==
    (Written /\ ~flags.json) =>
        \A x \in NamesInPlay :
            /\ propertyToVarName(propertyToVarName(x)) = propertyToVarName(x)
            /\ Len(propertyToVarName(x)) = Len(x)
            /\ Range(propertyToVarName(x))
                   \subseteq Range(Upper) \cup Range(Digit) \cup {"_"}

C19_VarNameIdempotent == [][C19_Step]_vars

C19_Witness ==
    /\ flags.namedQuery
    /\ queryInput = <<"q", ":", "a", Eszett>>
    /\ stdout = <<ResultLine(<<"A", "_", "=", DQuote, "v", DQuote>>)>>

\* the variable name of an assignment line
LineVarName(line) ==
    LET n == Len(ExportPrefix)
        rest == SubSeq(line, n + 1, Len(line))
    IN  Substring(rest, 0, IndexOf(rest, "="))

\* C20: every variable name written in an assignment line is a valid shell
\* variable name: not empty, of [A-Za-z0-9_], not starting with a digit.
C20_Step ==
    (Written /\ ~flags.json /\ FirstRecord.t = "obj"
             /\ (flags.namedQuery => HasPropertyList))
        => \A i \in DOMAIN WrittenLines :
              LET name == LineVarName(WrittenLines[i])
              IN  /\ name # <<>>
                  /\ Range(name) \subseteq WordChars
                  /\ name[1] \notin Range(Digit)

C20_ValidShellNames == [][C20_Step]_vars

----------------------------------------------------------------------------
(* The room link and the session. *)

\* the link decodes to at least the bytes of a key
HasFullKey == roomLink.valid /\ Len(roomLink.bytes) >= KeyLength

\* C22: a room link that is not validly encoded, or decodes to fewer bytes
\* than a key has, fails at decoding: no session is created from it, no
\* pipeline attempt is made and the process ends with a failure.
C22_ShortKeyRejected ==
    ~HasFullKey => /\ session = NoSession
                   /\ main = "decode"
                   /\ attempt = 0
                   /\ Exited => exitCode = ExitFail

\* C25: for a link of a key followed by k >= 0 bytes of encryption key, the
\* one session is constructed with exactly those key bytes and exactly those
\* encryption key bytes, and they are never changed afterwards.
C25_State ==
    (HasFullKey /\ main # "decode")
        => /\ Len(session) = 1
           /\ Len(session[1].key) = KeyLength
           /\ session[1].key \o session[1].encryptionKey = roomLink.bytes

C25_Step == (session # NoSession) => (session' = session /\ roomLink' = roomLink)

C25_DecodeRoundTrip == [](C25_State) /\ [][C25_Step]_vars

C25_Witness ==
    /\ exitCode = ExitOk /\ NumOutputs = 1
    /\ Len(roomLink.bytes) = KeyLength
    /\ session = <<[key |-> roomLink.bytes, encryptionKey |-> <<>>]>>

----------------------------------------------------------------------------
(* Fatal outcomes of the pipeline. *)

\* the diagnostic of a query name no listed query has
NotFoundLine(name) == ErrorLine(<<"Query ", DQuote>> \o name \o <<DQuote, " not found">>)
NoResultsLine == ErrorLine(<<"No results found">>)
OnStderr(line) == \E i \in DOMAIN stderr : stderr[i] = line

\* C23: listQueries is called once per pipeline attempt; and once the name has
\* been found missing, the diagnostic names it, sheets.list has not been called,
\* nothing is on the output stream and the process does not exit with code 0.
C23_QueryNotFound ==
    /\ NumCalls(calls, "listQueries") <= attempt
    /\ (flags.namedQuery /\ \E i \in DOMAIN stderr : stderr[i].text[1] = "Query ")
          => /\ OnStderr(NotFoundLine(ParseNamed(queryInput).queryName))
             /\ \A i \in DOMAIN room.queries :
                   room.queries[i].name # ParseNamed(queryInput).queryName
             /\ NumCalls(calls, "list") = 0
             /\ stdout = <<>>
             /\ Exited => exitCode # ExitOk

\* C24: once a query has returned an empty result sequence, a diagnostic is
\* on the error stream, nothing is on the output stream and the process does
\* not exit with code 0.
C24_EmptyResultIsFatal ==
    (\E i \in DOMAIN calls : calls[i].op = "list" /\ room.results = <<>>
                              /\ (i < Len(calls) \/ pc # "list"))
        => /\ OnStderr(NoResultsLine) \/ OnStderr(ErrorLine(<<"Error:">>))
           /\ stdout = <<>>
           /\ Exited => exitCode # ExitOk

----------------------------------------------------------------------------
(* Ordering. *)

\* the places of the calls of the given kind in the call log
Places(op) == {i \in DOMAIN calls : calls[i].op = op}
\* every call of the first kind comes before every call of the second
Before(op1, op2) == \A i \in Places(op1), j \in Places(op2) : i < j

\* C28: decode, ready() and join() are each invoked at most once and in that
\* order; a pipeline attempt starts only after all three and the completion
\* of join(); and when the process ends during setup no pipeline attempt and
\* no retry was ever started.
C28_SetupGatesPipeline ==
    /\ \A op \in {"decode", "ready", "join"} : Cardinality(Places(op)) <= 1
    /\ Before("decode", "ready") /\ Before("ready", "join")
    /\ Before("join", "getSchemas") /\ Before("join", "listSchemas")
    /\ attempt >= 1 =>
          /\ main = "running"
          /\ \A op \in {"decode", "ready", "join"} : Cardinality(Places(op)) = 1
    /\ main # "running" =>
          /\ attempt = 0 /\ ~timer /\ pc = "none"
          /\ Places("getSchemas") = {} /\ Places("listSchemas") = {}
    /\ (Exited /\ main = "decode") => Places("ready") = {}
    /\ (Exited /\ main = "ready") => Places("join") = {}

C28_Witness ==
    /\ exitCode = ExitFail /\ main = "join" /\ gb = "armed"
    /\ Len(calls) = 3 /\ calls[3].op = "join"

\* C26: the immediate attempt comes first; the retry timer is set only when
\* the immediate attempt has ended in failure and the retry starts only when
\* it fires, so the attempts do not overlap; there are at most two attempts,
\* and a failed retry ends the process.
C26_State ==
    /\ attempt <= 2
    /\ Cardinality(Places("getSchemas")) = attempt
    /\ timer => (attempt = 1 /\ pc = "rejected")
    /\ (attempt = 2 /\ pc = "rejected") => Exited

C26_Step ==
    /\ (timer' /\ ~timer)
          => (attempt = 1 /\ attempt' = 1 /\ pc' = "rejected"
              /\ \E i \in DOMAIN stderr' : IsPipelineError(stderr'[i]))
    /\ attempt' # attempt
          => /\ attempt' = attempt + 1
             /\ attempt = 1 => (timer /\ ~timer' /\ pc = "rejected")

C26_AtMostOneRetry == [](C26_State) /\ [][C26_Step]_vars

C26_Witness ==
    attempt = 2 /\ pc = "exited" /\ exitCode = ExitFail /\ gb = "armed"

----------------------------------------------------------------------------
(* Escaping. *)

\* the number of occurrences of the characters in the string
Count(str, chars) == Cardinality({i \in DOMAIN str : str[i] \in chars})

\* the length of the run of backslashes that ends just before place i
RunBefore(str, i) ==
    CHOOSE k \in 0..(i - 1) :
        /\ \A j \in (i - k)..(i - 1) : str[j] = Backslash
        /\ k = i - 1 \/ str[i - k - 1] # Backslash

\* the escaped value of an assignment line: what stands between the quotes
LineValue(line) == SubSeq(line, IndexOf(line, "=") + 3, Len(line) - 1)

\* C21: in the escaped value every double quote, backtick and dollar sign
\* follows a run of backslashes of odd length, the backslashes of the input
\* are doubled, no newline remains, and so no backslash is left unpaired
\* but those that escape one of these characters.
C21_Escaped(value, escaped) ==
    /\ \A i \in DOMAIN escaped :
          escaped[i] \in {DQuote, Backtick, Dollar} => RunBefore(escaped, i) % 2 = 1
    /\ Count(escaped, {Backslash})
          = 2 * Count(value, {Backslash}) + Count(value, {DQuote, Backtick, Dollar, Newline})
    /\ Len(escaped) = Len(value) + Count(value, EscapeChars \ {"n"})
    /\ Count(escaped, {Newline}) = 0
    /\ \A i \in 1..(Len(escaped) + 1) :
          (i = Len(escaped) + 1 \/ escaped[i] # Backslash)
              => \/ RunBefore(escaped, i) % 2 = 0
                 \/ i <= Len(escaped) /\ escaped[i] \in {DQuote, Backtick, Dollar, "n"}

C21_Step ==
    (Written /\ ~flags.json /\ FirstRecord.t = "obj" /\ Len(WrittenLines) = 1
             /\ Len(FirstRecord.f) = 1 /\ FirstRecord.f[1][2].t = "str")
        => \A escaped \in {LineValue(WrittenLines[1])} :
               C21_Escaped(FirstRecord.f[1][2].v, escaped)

C21_EscapeSafety == [][C21_Step]_vars

C21_Witness ==
    /\ exitCode = ExitOk
    /\ FirstRecord = ValueRecord(<<Backslash, DQuote, Newline>>)
    /\ stdout = <<ResultLine(<<"A", "=", DQuote, Backslash, Backslash, Backslash, DQuote,
                               Backslash, "n", DQuote>>)>>

----------------------------------------------------------------------------
(* The query argument. *)

\* the k-th smallest element of a set of numbers
Kth(S, k) == CHOOSE x \in S : Cardinality({y \in S : y < x}) = k - 1

\* the place of the first ':' of the argument, 0 when it has none
FirstColon ==
    LET colons == {i \in DOMAIN queryInput : queryInput[i] = ":"}
    IN  IF colons = {} THEN 0 ELSE Kth(colons, 1)

\* what follows the first ':'
AfterColon == SubSeq(queryInput, FirstColon + 1, Len(queryInput))

\* the pieces of AfterColon between its commas, each without the white space
\* around it, in order
TrimmedPieces ==
    LET rest == AfterColon
        commas == {i \in DOMAIN rest : rest[i] = ","}
        starts == {1} \cup {i + 1 : i \in commas}
        ends == commas \cup {Len(rest) + 1}
        piece(k) ==
            LET from == Kth(starts, k)
                to == Kth(ends, k) - 1
                inked == {i \in from..to : rest[i] \notin WhiteSpace}
            IN  IF inked = {} THEN <<>>
                ELSE SubSeq(rest, Kth(inked, 1), Kth(inked, Cardinality(inked)))
    IN  [k \in 1..Cardinality(starts) |-> piece(k)]

\* C29: the query name is what precedes the first ':' (everything when there
\* is none); the properties are the pieces of the rest between commas,
\* trimmed, the empty ones dropped, order and duplicates kept; and there is
\* no property list exactly when there is no ':'.
C29_Step ==
    (flags.namedQuery /\ pc # "listQueries" /\ pc' = "listQueries")
        => LET parsed == ParseNamed(queryInput)
           IN  /\ parsed.hasProperties = (FirstColon # 0)
               /\ parsed.queryName = IF FirstColon = 0 THEN queryInput
                                     ELSE SubSeq(queryInput, 1, FirstColon - 1)
               /\ FirstColon # 0 =>
                      parsed.properties = SelectSeq(TrimmedPieces, LAMBDA p : p # <<>>)

C29_NamedParsing == [][C29_Step]_vars

C29_Witness ==
    /\ flags.namedQuery
    /\ queryInput = <<"a", ":", "a", " ">>
    /\ exitCode = ExitOk
    /\ stdout = <<ResultLine(<<"A", "=", DQuote, "1", DQuote>>)>>

----------------------------------------------------------------------------
(* Teardown and the storage directory. *)

\* the rm() of the storage directory has been called
RmStarted == pc = "rm" \/ gb = "rm" \/ \E i \in DOMAIN teardown : teardown[i] \in {"rm", "rmFailed"}

\* C35: the removal of the storage directory is not started before the closes
\* of the mirroring helper, of the swarm and of the store have completed.
C35_RmAfterCloses == RmStarted => closed = Resources

----------------------------------------------------------------------------
(* The schema the store is queried for. *)

\* the places of the store queries in the log
QueryPlaces == Places("listQueries") \cup Places("list")

----------------------------------------------------------------------------
(* Failing listSchemas calls. *)

\* the store holds the schemas of the room: a listSchemas call that returns
\* does not return an empty list
SchemasAvailable == synced /\ room.schemas # <<>>

\* a listSchemas call settles and has thrown: its schemas were there and the
\* attempt does not go on to query the store
ListSchemasThrew ==
    /\ pc = "listSchemas" /\ pc' # pc /\ pc' \notin {"listQueries", "list"}
    /\ SchemasAvailable

\* C32: a listSchemas call that throws takes one attempt of the budget of 3,
\* like an empty result, a pause following unless it was the last; the error
\* is not passed on: after the last attempt the invocation reports that no
\* schema was found. No getSchemas call makes more than 3 calls.
C32_Step ==
    ListSchemasThrew =>
        /\ retries' = retries - 1
        /\ (pc' = "pause") = (retries' > 0)
        /\ pc' = "pause" => stderr' = stderr
        /\ pc' # "pause" =>
              /\ NumListSchemas = SchemaRetries
              /\ Len(stderr') > Len(stderr)
              /\ stderr'[Len(stderr) + 1] = ErrorLine(<<"No schemas found">>)

C32_ThrowTakesAnAttempt == [](NumListSchemas <= SchemaRetries) /\ [][C32_Step]_vars

\* C32 witness: three calls were made on a store that held the schemas, and
\* the invocation has reported that no schema was found
C32_Witness ==
    /\ SchemasAvailable /\ NumListSchemas = SchemaRetries /\ attempt = 1
    /\ stderr = <<ErrorLine(<<"No schemas found">>)>>
    /\ exitCode = ExitFail

----------------------------------------------------------------------------
(* Termination. *)

\* a call is pending or a timer is set
HasPending ==
    \/ main \in {"decode", "ready", "join"}
    \/ pc \in {"listSchemas", "pause", "listQueries", "list", "rm"}
    \/ timer
    \/ gb = "rm"

----------------------------------------------------------------------------
(* Store operations and teardown. *)

\* the number of store operations issued so far
NumStoreCalls(log) ==
    NumCalls(log, "listSchemas") + NumCalls(log, "listQueries") + NumCalls(log, "list")

\* C34: once cleanup() has been called, by executeQuery or by the signal
\* handler, no listSchemas, listQueries or list call is issued any more.
C34_Step == cleanups >= 1 => NumStoreCalls(calls') = NumStoreCalls(calls)

C34_NoQueryAfterTeardown == [][C34_Step]_vars

----------------------------------------------------------------------------
(* The emission of a result set. *)

\* the result set an attempt that reaches its output writes
ResultSet ==
    IF flags.namedQuery THEN NamedOutput(room.results, ParseNamed(queryInput)).lines
    ELSE ExpressionOutput(room.results)

\* the texts of the result lines of an output stream, in order
ResultTexts(out) ==
    LET results == SelectSeq(out, LAMBDA l : l.kind = "result")
    IN  [i \in DOMAIN results |-> results[i].text]

\* the lines a step adds to the output stream
AddedLines == SubSeq(stdout', Len(stdout) + 1, Len(stdout'))

\* C36: a result set is written in one step: a step that writes a result line
\* writes the whole result set, with no other line between its lines; so the
\* output stream holds whole result sets only.
C36_Whole ==
    (\E i \in DOMAIN stdout : stdout[i].kind = "result") =>
        LET texts == ResultTexts(stdout)
            set == ResultSet
        IN  /\ Len(texts) = NumOutputs * Len(set)
            /\ \A i \in DOMAIN texts : texts[i] = set[((i - 1) % Len(set)) + 1]

C36_Step ==
    (\E i \in DOMAIN AddedLines : AddedLines[i].kind = "result") =>
        /\ Written
        /\ WrittenLines = ResultSet
        /\ \A i, j, k \in DOMAIN AddedLines :
              (i < j /\ j < k /\ AddedLines[i].kind = "result" /\ AddedLines[k].kind = "result")
                  => AddedLines[j].kind = "result"

C36_EmissionIsAtomic == [](C36_Whole) /\ [][C36_Step]_vars

\* C36 witness: a result set of two lines was written with --debug, and a
\* signal was handled while the rm() of the teardown was pending
C36_Witness ==
    /\ flags.debug /\ NumOutputs = 1 /\ Len(ResultTexts(stdout)) = 2
    /\ pc = "rm" /\ gb = "rm"

----------------------------------------------------------------------------
(* The variable names of a result set. *)

\* the step writes assignment lines: named mode with a property list, or
\* expression mode on an object, without --json
WritesAssignments ==
    /\ Written /\ ~flags.json
    /\ IF flags.namedQuery THEN HasPropertyList ELSE FirstRecord.t = "obj"

\* no property is requested twice
DistinctRequested ==
    \A i, j \in DOMAIN Requested : Requested[i] = Requested[j] => i = j

\* C37: the assignment lines of one result set assign distinct variables,
\* the requested properties being distinct.
C37_Step ==
    (WritesAssignments /\ (flags.namedQuery => DistinctRequested)) =>
        \A i, j \in DOMAIN WrittenLines :
            LineVarName(WrittenLines[i]) = LineVarName(WrittenLines[j]) => i = j

C37_DistinctVarNames == [][C37_Step]_vars

----------------------------------------------------------------------------
(* What the shell reads back. *)

\* the value a shell gives to a text between double quotes: a backslash before
\* a backslash, a double quote, a backtick or a dollar sign yields that
\* character, and any other character, a backslash too, stands for itself
RECURSIVE ShellUnquote(_)
ShellUnquote(text) ==
    IF text = <<>> THEN <<>>
    ELSE IF /\ text[1] = Backslash /\ Len(text) >= 2
            /\ text[2] \in {Backslash, DQuote, Backtick, Dollar}
         THEN <<text[2]>> \o ShellUnquote(SubSeq(text, 3, Len(text)))
         ELSE <<text[1]>> \o ShellUnquote(Tail(text))

\* C38: the shell reads the escaped value of an assignment line back as the
\* value of the field.
C38_Step ==
    (Written /\ ~flags.json /\ FirstRecord.t = "obj" /\ Len(WrittenLines) = 1
             /\ Len(FirstRecord.f) = 1 /\ FirstRecord.f[1][2].t = "str")
        => \A escaped \in {LineValue(WrittenLines[1])} :
               ShellUnquote(escaped) = FirstRecord.f[1][2].v

C38_ShellRoundTrip == [][C38_Step]_vars

----------------------------------------------------------------------------
(* The single value of a named query. *)

\* C39: a named-mode invocation without a property list that exits with code
\* 0 has printed one line, the value of a field the first result has.
C39_PrintedValueIsAField ==
    (exitCode = ExitOk /\ flags.namedQuery /\ ~HasPropertyList) =>
        LET texts == ResultTexts(stdout)
        IN  /\ Len(texts) = 1
            /\ \E k \in Range(ObjectKeys(FirstRecord)) :
                  texts[1] = ConsoleLogText(GetProp(FirstRecord, k))

====
